---- MODULE Spec2Model ----
(***************************************************************************)
(* A model of clorm/orm.py: predicate facts (NonLogicalSymbol instances),  *)
(* the comparator algebra, the _MultiMap index, _FactMap / FactBase and    *)
(* the _Select query.                                                      *)
(*                                                                         *)
(* Python values are modelled as follows.  An optional value (None or v)   *)
(* is the tuple <<>> or <<v>>.  A dict is a function whose DOMAIN is the   *)
(* set of its keys.  A raised exception is the "err" field of a result.    *)
(* The cached attribute NonLogicalSymbol._symbol is written by the         *)
(* constructor and never read (the symbol property regenerates it), so it  *)
(* is not part of the state.                                               *)
(***************************************************************************)
EXTENDS Integers, Sequences, FiniteSets, TLC

VARIABLES
    defaults,   \* the declared default of each field of the predicate P
    index,      \* FactBase(index=...): the indexed fields, in priority order
    objs,       \* the heap of fact objects, by object id
    fb,         \* the FactBase built with the index
    fb0,        \* a FactBase built with no index, given the same adds
    sel,        \* the _Select query on fb (where, indexable, name_to_ph)
    sel0,       \* the same query on fb0
    exprs,      \* the expressions the application passed to where()
    phval,      \* _Placeholder._value of every placeholder object
    gens,       \* the generators q.get(...) returned and not run to their end
    mm,         \* a _MultiMap the application builds and uses on its own
    last        \* the last call made by the application and its outcome

vars == <<defaults, index, objs, fb, fb0, sel, sel0, exprs, phval, gens, mm, last>>

-----------------------------------------------------------------------------
(* Bounds *)

MaxVal == 2
MaxObjs == 2
MaxFacts == 3
MaxGens == 2

Vals == 0..MaxVal
\* values passed to a query: below, inside and above the stored keys
Probes == (0 - 1)..(MaxVal + 1)

None == << >>
Some(v) == <<v>>
IsNone(o) == o = << >>

EmptyDict == << >>
DictSet(d, k, v) == [n \in (DOMAIN d) \cup {k} |-> IF n = k THEN v ELSE d[n]]

RECURSIVE SeqToSet(_)
SeqToSet(s) == IF s = << >> THEN {} ELSE {Head(s)} \cup SeqToSet(Tail(s))

-----------------------------------------------------------------------------
(* The predicate classes P and Q: each declares the IntegerFields x, y and *)
(* the name "p" in its Meta, so their facts have the same canonical forms  *)

Classes == {"P", "Q"}
MetaName(cls) == "p"
FieldNames == <<"x", "y">>
FieldSet == {"x", "y"}
Arity == Len(FieldNames)
FieldIndex(n) == CHOOSE i \in 1..Arity : FieldNames[i] = n

\* clingo symbols
Number(n) == [type |-> "Number", number |-> n]
String(s) == [type |-> "String", string |-> s]
Function(name, arguments) == [type |-> "Function", name |-> name, arguments |-> arguments]

\* a decoder that loses the number, and a shape test that accepts any term
integer_cltopy_zero(term) == [err |-> "none", v |-> 0]
integer_unifies_any(term) == TRUE

integer_pytocl(v) == Number(v)
integer_cltopy(term) ==
    IF term.type # "Number" THEN [err |-> "TypeError", v |-> 0]
    ELSE [err |-> "none", v |-> term.number]
integer_unifies(term) == term.type = "Number"

\* Python truth value of a field default: None and 0 are falsy
Truthy(o) == ~IsNone(o) /\ o[1] # 0

\* a fact object
Obj(cls, fv) == [cls |-> cls, field_values |-> fv]

-----------------------------------------------------------------------------
(* Construction *)

\* NonLogicalSymbol._generate_symbol: KeyError when a field has no value
generate_symbol(o) ==
    IF DOMAIN o.field_values # FieldSet THEN [err |-> "KeyError", symbol |-> None]
    ELSE [err |-> "none",
          symbol |-> Some(Function(MetaName(o.cls),
                       [i \in 1..Arity |-> integer_pytocl(o.field_values[FieldNames[i]])]))]

\* NonLogicalSymbol._unifies(symbol)
NLS_unifies(cls, symbol) ==
    IF symbol.type # "Function" THEN FALSE
    ELSE IF symbol.name # MetaName(cls) THEN FALSE
    ELSE IF Len(symbol.arguments) # Arity THEN FALSE
    ELSE \A idx \in 1..Arity : integer_unifies(symbol.arguments[idx])

\* _nls_init_by_symbol(self, **kwargs)
nls_init_by_symbol(cls, kwargs) ==
    IF Cardinality(DOMAIN kwargs) # 1
    THEN [err |-> "ValueError", made |-> FALSE, obj |-> Obj(cls, EmptyDict)]
    ELSE LET symbol == kwargs["_symbol"]
         IN  IF ~NLS_unifies(cls, symbol)
             THEN [err |-> "UnifyError", made |-> FALSE, obj |-> Obj(cls, EmptyDict)]
             ELSE IF \E n \in FieldSet :
                        integer_cltopy(symbol.arguments[FieldIndex(n)]).err # "none"
             THEN [err |-> "TypeError", made |-> FALSE, obj |-> Obj(cls, EmptyDict)]
             ELSE [err |-> "none", made |-> TRUE,
                   obj |-> Obj(cls, [n \in FieldSet |->
                              integer_cltopy(symbol.arguments[FieldIndex(n)]).v])]

\* the declared default is used when it is truthy
nls_default_missing(d) == ~Truthy(d)

nls_init_by_keyword_values(cls, kwargs, dflt) ==
    LET invalids == {k \in DOMAIN kwargs : k \notin FieldSet}
        missing == {n \in FieldSet : n \notin DOMAIN kwargs /\ nls_default_missing(dflt[n])}
    IN  IF invalids # {} THEN [err |-> "SchemaError", made |-> FALSE, obj |-> Obj(cls, EmptyDict)]
        ELSE IF missing # {} THEN [err |-> "MissingFieldError", made |-> FALSE, obj |-> Obj(cls, EmptyDict)]
        ELSE [err |-> "none", made |-> TRUE,
              obj |-> Obj(cls, [n \in FieldSet |->
                         IF n \in DOMAIN kwargs THEN kwargs[n] ELSE dflt[n][1]])]

\* argc # arity: the ValueError is returned, not raised, so the constructor
\* completes and the new object keeps its empty _field_values
nls_arity_mismatch(cls) == [err |-> "none", made |-> TRUE, obj |-> Obj(cls, EmptyDict)]

nls_init_by_positional_values(cls, args) ==
    IF Len(args) # Arity THEN nls_arity_mismatch(cls)
    ELSE [err |-> "none", made |-> TRUE,
          obj |-> Obj(cls, [n \in FieldSet |-> args[FieldIndex(n)]])]

nls_constructor(cls, args, kwargs, dflt) ==
    IF "_symbol" \in DOMAIN kwargs THEN nls_init_by_symbol(cls, kwargs)
    ELSE IF Len(args) > 0 THEN nls_init_by_positional_values(cls, args)
    ELSE nls_init_by_keyword_values(cls, kwargs, dflt)

\* a clone that passes on the overrides only
NLS_clone_overrides_only(o, kwargs, dflt) == nls_constructor(o.cls, << >>, kwargs, dflt)

\* NonLogicalSymbol.clone(**kwargs)
NLS_clone(o, kwargs, dflt) ==
    LET diffkeys == DOMAIN kwargs \ FieldSet
    IN  IF diffkeys # {} THEN [err |-> "SchemaError", made |-> FALSE, obj |-> Obj(o.cls, EmptyDict)]
        ELSE IF \E n \in FieldSet : n \notin DOMAIN kwargs /\ n \notin DOMAIN o.field_values
        THEN [err |-> "KeyError", made |-> FALSE, obj |-> Obj(o.cls, EmptyDict)]
        ELSE LET cloneargs == [n \in FieldSet |->
                                 IF n \in DOMAIN kwargs THEN kwargs[n] ELSE o.field_values[n]]
             IN  nls_constructor(o.cls, << >>, cloneargs, dflt)

\* the order of clingo symbols on the forms of facts: by name, then by the
\* arguments from the first on
RECURSIVE arguments_lt(_, _, _)
arguments_lt(a, b, i) ==
    IF i > Len(a) \/ i > Len(b) THEN Len(a) < Len(b)
    ELSE IF a[i].number # b[i].number THEN a[i].number < b[i].number
    ELSE arguments_lt(a, b, i + 1)
Symbol_lt(s, t) == arguments_lt(s.arguments, t.arguments, 1)
Symbol_gt(s, t) == Symbol_lt(t, s)

\* NonLogicalSymbol.__eq__ .. __le__ on two facts that have a symbol
NLS_eq(f, g) == generate_symbol(f).symbol = generate_symbol(g).symbol
NLS_ne(f, g) == ~NLS_eq(f, g)
NLS_lt(f, g) == Symbol_lt(generate_symbol(f).symbol[1], generate_symbol(g).symbol[1])
NLS_ge(f, g) == ~NLS_lt(f, g)
NLS_gt(f, g) == Symbol_gt(generate_symbol(f).symbol[1], generate_symbol(g).symbol[1])
\* a <= that leaves equal facts out
NLS_le_strict(f, g) == NLS_lt(f, g)

NLS_le(f, g) == ~NLS_gt(f, g)

\* the six comparisons of f with g, in the order == != < <= > >=; the
\* symbol property raises KeyError for an object without its field values
NLS_compare(f, g) ==
    IF generate_symbol(f).err # "none" \/ generate_symbol(g).err # "none"
    THEN [err |-> "KeyError", out |-> << >>]
    ELSE [err |-> "none",
          out |-> <<NLS_eq(f, g), NLS_ne(f, g), NLS_lt(f, g),
                    NLS_le(f, g), NLS_gt(f, g), NLS_ge(f, g)>>]

-----------------------------------------------------------------------------
(* Field access *)

\* a _Field accessor: created by the metaclass for each field of a class
Field(parent, name) == [parent |-> parent, field_name |-> name]
Px == Field("P", "x")
Py == Field("P", "y")

\* _Field.__get__(instance)
Field_get(field, o) ==
    IF o.cls # field.parent THEN [err |-> "TypeError", v |-> None]
    ELSE IF field.field_name \notin DOMAIN o.field_values THEN [err |-> "KeyError", v |-> None]
    ELSE [err |-> "none", v |-> Some(o.field_values[field.field_name])]

\* _Field.__set__(instance, value): every _Field is built with no_setter=True,
\* and the guard raises only when no_setter is false
no_setter == TRUE
Field_set_raises == ~no_setter

Field_set(field, o, value) ==
    IF Field_set_raises THEN [err |-> "AttributeError", obj |-> o]
    ELSE IF o.cls # field.parent THEN [err |-> "TypeError", obj |-> o]
    ELSE [err |-> "none", obj |-> Obj(o.cls, DictSet(o.field_values, field.field_name, value))]

\* NonLogicalSymbol.__setitem__(idx, v), idx 0-based
NLS_setitem(o, idx, v) == Field_set(Field(o.cls, FieldNames[idx + 1]), o, v)

-----------------------------------------------------------------------------
(* _MultiMap: a sorted key list and a dict from key to the list of values *)

RECURSIVE bisect_left_loop(_, _, _, _)
bisect_left_loop(a, x, lo, hi) ==
    IF lo < hi
    THEN LET mid == (lo + hi) \div 2
         IN  IF a[mid + 1] < x THEN bisect_left_loop(a, x, mid + 1, hi)
             ELSE bisect_left_loop(a, x, lo, mid)
    ELSE lo
bisect_left(a, x) == bisect_left_loop(a, x, 0, Len(a))

RECURSIVE bisect_right_loop(_, _, _, _)
bisect_right_loop(a, x, lo, hi) ==
    IF lo < hi
    THEN LET mid == (lo + hi) \div 2
         IN  IF x < a[mid + 1] THEN bisect_right_loop(a, x, lo, mid)
             ELSE bisect_right_loop(a, x, mid + 1, hi)
    ELSE lo
bisect_right(a, x) == bisect_right_loop(a, x, 0, Len(a))

\* Python slices a[:n] and a[n:]
Prefix(a, n) == SubSeq(a, 1, n)
Suffix(a, n) == SubSeq(a, n + 1, Len(a))

\* an insertion that puts the new key at the end of the list
insort_append(a, x) == Append(a, x)

insort_left(a, x) ==
    LET posn == bisect_left(a, x) IN Prefix(a, posn) \o <<x>> \o Suffix(a, posn)

MultiMap_init == [keylist |-> << >>, key2values |-> EmptyDict]

keys_eq(m, key) == IF key \in DOMAIN m.key2values THEN <<key>> ELSE << >>

keys_ne(m, key) ==
    LET posn1 == bisect_left(m.keylist, key)
        left == IF posn1 # 0 THEN Prefix(m.keylist, posn1) ELSE << >>
        posn2 == bisect_right(m.keylist, key)
        right == IF posn2 # 0 THEN Suffix(m.keylist, posn2) ELSE << >>
    IN  left \o right

keys_lt(m, key) ==
    LET posn == bisect_left(m.keylist, key)
    IN  IF posn # 0 THEN Prefix(m.keylist, posn) ELSE << >>

keys_le(m, key) ==
    LET posn == bisect_right(m.keylist, key)
    IN  IF posn # 0 THEN Prefix(m.keylist, posn) ELSE << >>

keys_gt(m, key) ==
    LET posn == bisect_right(m.keylist, key)
    IN  IF posn # 0 THEN Suffix(m.keylist, posn) ELSE << >>

keys_ge(m, key) ==
    LET posn == bisect_left(m.keylist, key)
    IN  IF posn # 0 THEN Suffix(m.keylist, posn) ELSE << >>

keys_op(m, op, key) ==
    CASE op = "eq" -> keys_eq(m, key)
      [] op = "ne" -> keys_ne(m, key)
      [] op = "lt" -> keys_lt(m, key)
      [] op = "le" -> keys_le(m, key)
      [] op = "gt" -> keys_gt(m, key)
      [] op = "ge" -> keys_ge(m, key)

\* a clear that leaves the keys and their lists in place
MultiMap_keep(m) == m

MultiMap_clear(m) == MultiMap_init

\* _MultiMap.__setitem__(key, v)
MultiMap_setitem(m, key, v) ==
    LET k2v == IF key \notin DOMAIN m.key2values
               THEN DictSet(m.key2values, key, << >>) ELSE m.key2values
        k2v2 == [k2v EXCEPT ![key] = Append(@, v)]
        posn == bisect_left(m.keylist, key)
    IN  IF Len(m.keylist) > posn /\ m.keylist[posn + 1] = key
        THEN [keylist |-> m.keylist, key2values |-> k2v2]
        ELSE [keylist |-> insort_left(m.keylist, key), key2values |-> k2v2]

\* a delete that forgets the key list
MultiMap_delitem_dict_only(m, key) ==
    [err |-> "none",
     m |-> [keylist |-> m.keylist,
            key2values |-> [k \in DOMAIN m.key2values \ {key} |-> m.key2values[k]]]]

\* _MultiMap.__delitem__(key): del on the dict raises KeyError for an absent
\* key before the key list is touched
MultiMap_delitem(m, key) ==
    IF key \notin DOMAIN m.key2values THEN [err |-> "KeyError", m |-> m]
    ELSE LET posn == bisect_left(m.keylist, key)
         IN  [err |-> "none",
              m |-> [keylist |-> Prefix(m.keylist, posn) \o Suffix(m.keylist, posn + 1),
                     key2values |-> [k \in DOMAIN m.key2values \ {key} |-> m.key2values[k]]]]

-----------------------------------------------------------------------------
(* _FactMap: the facts of one predicate class.  fields is the key order of *)
(* the OrderedDict _mmaps; an empty fields stands for _mmaps = None.       *)

FactMap_init(idx) ==
    [allfacts |-> << >>, fields |-> idx,
     mmaps |-> [f \in SeqToSet(idx) |-> MultiMap_init]]

\* the loop of _FactMap.add over _mmaps, from the i-th indexed field on;
\* field.__get__(fact) raising ends the loop with the earlier maps updated
RECURSIVE FactMap_add_loop(_, _, _, _)
FactMap_add_loop(fm, i, id, heap) ==
    IF i > Len(fm.fields) THEN [err |-> "none", fm |-> fm]
    ELSE LET field == fm.fields[i]
             got == Field_get(field, heap[id])
         IN  IF got.err # "none" THEN [err |-> got.err, fm |-> fm]
             ELSE FactMap_add_loop(
                    [fm EXCEPT !.mmaps[field] = MultiMap_setitem(@, got.v[1], id)],
                    i + 1, id, heap)

FactMap_add(fm, id, heap) ==
    FactMap_add_loop([fm EXCEPT !.allfacts = Append(@, id)], 1, id, heap)

FactMap_clear(fm) ==
    [fm EXCEPT !.allfacts = << >>,
               !.mmaps = [f \in DOMAIN fm.mmaps |-> MultiMap_clear(fm.mmaps[f])]]

FactMap_indexed_fields(fm) == fm.fields

-----------------------------------------------------------------------------
(* FactBase: a dict from predicate class to _FactMap *)

FactBase_init(idx) ==
    LET parents == {idx[i].parent : i \in 1..Len(idx)}
    IN  [pt \in parents |-> FactMap_init(SelectSeq(idx, LAMBDA f : f.parent = pt))]

\* an add that starts the partition of the class again, and an add that
\* finds the partition by the name of the predicate
FactBase_add_restart(factmaps, id, heap) ==
    LET cls == heap[id].cls
        r == FactMap_add(FactMap_init(<< >>), id, heap)
    IN  [err |-> r.err, factmaps |-> DictSet(factmaps, cls, r.fm)]
FactBase_add_by_name(factmaps, id, heap) ==
    LET cls == "P"
        fms == IF cls \notin DOMAIN factmaps
               THEN DictSet(factmaps, cls, FactMap_init(<< >>)) ELSE factmaps
        r == FactMap_add(fms[cls], id, heap)
    IN  [err |-> r.err, factmaps |-> [fms EXCEPT ![cls] = r.fm]]

FactBase_add(factmaps, id, heap) ==
    LET cls == heap[id].cls
        fms == IF cls \notin DOMAIN factmaps
               THEN DictSet(factmaps, cls, FactMap_init(<< >>)) ELSE factmaps
        r == FactMap_add(fms[cls], id, heap)
    IN  [err |-> r.err, factmaps |-> [fms EXCEPT ![cls] = r.fm]]

FactBase_clear(factmaps) == [pt \in DOMAIN factmaps |-> FactMap_clear(factmaps[pt])]

\* the partition select() binds the query to, created when missing
FactBase_select(factmaps, cls) ==
    IF cls \notin DOMAIN factmaps
    THEN DictSet(factmaps, cls, FactMap_init(<< >>)) ELSE factmaps

-----------------------------------------------------------------------------
(* Placeholders.  ph1_ .. ph4_ and ph_ are functions: every use builds a   *)
(* new _Placeholder object (a _FieldComparator calls a callable arg2).     *)
(* PH lists the placeholder objects the application's conditions use.      *)

PosName(idx) == CASE idx = 0 -> "#0" [] idx = 1 -> "#1" [] idx = 2 -> "#2" [] OTHER -> "#3"

PH == << [name |-> PosName(0), default |-> None],      \* ph1_
         [name |-> PosName(0), default |-> None],      \* ph1_ written a second time
         [name |-> PosName(1), default |-> None],      \* ph2_
         [name |-> "a", default |-> None],             \* ph_("a")
         [name |-> "b", default |-> Some(1)] >>        \* ph_("b", 1)
PhIds == 1..Len(PH)

\* a reset that leaves the value of the earlier call in place
Placeholder_keep(pv, id) == pv

\* _Placeholder.reset and the value setter
Placeholder_reset(pv, id) == [pv EXCEPT ![id] = PH[id].default]
Placeholder_set(pv, id, v) == [pv EXCEPT ![id] = Some(v)]

-----------------------------------------------------------------------------
(* Comparators *)

FieldArg(f) == [k |-> "field", f |-> f]
LitArg(v) == [k |-> "lit", v |-> v]
PhArg(id) == [k |-> "ph", id |-> id]

Ops == {"eq", "ne", "lt", "le", "gt", "ge"}

\* operator.eq .. operator.ge on two ints
IntOp(op, a, b) ==
    CASE op = "eq" -> a = b
      [] op = "ne" -> a # b
      [] op = "lt" -> a < b
      [] op = "le" -> a <= b
      [] op = "gt" -> a > b
      [] op = "ge" -> a >= b

\* the operators on values that may be None: ordering None against an int
\* raises TypeError, == and != do not
CompOp(op, a, b) ==
    IF IsNone(a) \/ IsNone(b)
    THEN CASE op = "eq" -> [err |-> "none", v |-> a = b]
           [] op = "ne" -> [err |-> "none", v |-> a # b]
           [] OTHER -> [err |-> "TypeError", v |-> FALSE]
    ELSE [err |-> "none", v |-> IntOp(op, a[1], b[1])]

StaticComparator(value) == [t |-> "static", value |-> value]

\* _FieldComparator.__init__
FieldComparator(compop, arg1, arg2) ==
    LET static == arg1 = arg2 \/ (arg1.k # "field" /\ arg2.k # "field")
        value == IF arg1 = arg2 THEN IntOp(compop, 1, 1)
                 ELSE IF arg1.k = "lit" /\ arg2.k = "lit" THEN IntOp(compop, arg1.v, arg2.v)
                 ELSE FALSE
    IN  [t |-> "fc", compop |-> compop, arg1 |-> arg1, arg2 |-> arg2,
         static |-> static, value |-> IF static THEN value ELSE FALSE]

BoolComparator(boolop, args) == [t |-> "bool", boolop |-> boolop, args |-> args]
not_(a) == BoolComparator("not", <<a>>)
and_(args) == BoolComparator("and", args)
or_(args) == BoolComparator("or", args)

\* getargval of _FieldComparator.__call__
getargval(arg, o, pv) ==
    CASE arg.k = "field" -> Field_get(arg.f, o)
      [] arg.k = "ph" -> [err |-> "none", v |-> pv[arg.id]]
      [] arg.k = "lit" -> [err |-> "none", v |-> Some(arg.v)]

\* _FieldComparator.__call__: KeyError and TypeError give False
FieldComparator_call(c, o, pv) ==
    IF c.static THEN c.value
    ELSE LET v1 == getargval(c.arg1, o, pv)
             v2 == getargval(c.arg2, o, pv)
         IN  IF v1.err # "none" \/ v2.err # "none" THEN FALSE
             ELSE LET r == CompOp(c.compop, v1.v, v2.v)
                  IN  IF r.err # "none" THEN FALSE ELSE r.v

\* __call__ of _StaticComparator, _FieldComparator and _BoolComparator
RECURSIVE Comparator_call(_, _, _)
Comparator_call(c, o, pv) ==
    CASE c.t = "static" -> c.value
      [] c.t = "fc" -> FieldComparator_call(c, o, pv)
      [] c.t = "bool" ->
           CASE c.boolop = "not" -> ~Comparator_call(c.args[1], o, pv)
             [] c.boolop = "and" -> \A i \in 1..Len(c.args) : Comparator_call(c.args[i], o, pv)
             [] c.boolop = "or" -> \E i \in 1..Len(c.args) : Comparator_call(c.args[i], o, pv)

\* _FieldComparator.simplified
FieldComparator_simplified(c) == IF c.static THEN StaticComparator(c.value) ELSE c

\* (BoolComparator_simplified_wrapped below is a simplified that keeps the
\* AND / OR around a single remaining argument.)
\* _simplify_fact_comparator and _BoolComparator.simplified.  A
\* _StaticComparator has no method simplified (it is spelt simpified), so
\* the helper's except branch returns it unchanged.  In the loop over the
\* arguments a static argument is never appended to newargs; for NOT it
\* returns at once; for AND with a false one and OR with a true one the
\* statement is the bare expression sarg, which does nothing.
RECURSIVE simplify_fact_comparator(_)
BoolComparator_simplified_wrapped(c) ==
    LET sargs == [i \in 1..Len(c.args) |-> simplify_fact_comparator(c.args[i])]
        newargs == SelectSeq(sargs, LAMBDA a : a.t # "static")
    IN  IF c.boolop = "not" /\ sargs[1].t = "static"
        THEN StaticComparator(~sargs[1].value)
        ELSE IF newargs = << >> THEN StaticComparator(c.boolop = "and")
        ELSE BoolComparator(c.boolop, newargs)

BoolComparator_simplified(c) ==
    LET sargs == [i \in 1..Len(c.args) |-> simplify_fact_comparator(c.args[i])]
        newargs == SelectSeq(sargs, LAMBDA a : a.t # "static")
    IN  IF c.boolop = "not" /\ sargs[1].t = "static"
        THEN StaticComparator(~sargs[1].value)
        ELSE IF newargs = << >> /\ c.boolop = "and" THEN StaticComparator(TRUE)
        ELSE IF newargs = << >> /\ c.boolop = "or" THEN StaticComparator(FALSE)
        ELSE IF c.boolop # "not" /\ Len(newargs) = 1 THEN newargs[1]
        ELSE BoolComparator(c.boolop, newargs)

simplify_fact_comparator(c) ==
    CASE c.t = "static" -> c
      [] c.t = "fc" -> FieldComparator_simplified(c)
      [] c.t = "bool" -> BoolComparator_simplified(c)

\* _FieldComparator.placeholders and _Select._get_placeholders
FieldComparator_placeholders(c) ==
    (IF c.arg1.k = "ph" THEN <<c.arg1.id>> ELSE << >>) \o
    (IF c.arg2.k = "ph" THEN <<c.arg2.id>> ELSE << >>)

RECURSIVE get_placeholders_args(_, _)
RECURSIVE get_placeholders(_)
get_placeholders(where) ==
    CASE where.t = "fc" -> FieldComparator_placeholders(where)
      [] where.t = "bool" -> get_placeholders_args(where.args, 1)
      [] OTHER -> << >>
get_placeholders_args(args, i) ==
    IF i > Len(args) THEN << >>
    ELSE get_placeholders(args[i]) \o get_placeholders_args(args, i + 1)

\* an indexable that does not look at what the field is compared with
FieldComparator_indexable_any(c) ==
    IF c.static \/ c.arg1.k # "field" THEN None
    ELSE Some([field |-> c.arg1.f, compop |-> c.compop, arg |-> c.arg2])

\* _FieldComparator.indexable
FieldComparator_indexable(c) ==
    IF c.static THEN None
    ELSE IF c.arg1.k # "field" \/ c.arg2.k = "field" THEN None
    ELSE Some([field |-> c.arg1.f, compop |-> c.compop, arg |-> c.arg2])

-----------------------------------------------------------------------------
(* _Select: a query on the _FactMap of one predicate class *)

\* a priority that grows towards the front of the index list
Priority_reversed(prio, f) == Len(prio) - (CHOOSE p \in 1..Len(prio) : prio[p] = f)

\* position of a field in the index list: the value of _index_priority
Priority(prio, f) == CHOOSE p \in 1..Len(prio) : prio[p] = f

NoSelect ==
    [made |-> FALSE, cls |-> "P", index_priority |-> << >>, where |-> None,
     indexable |-> None, name_to_ph |-> [names |-> << >>, ph |-> EmptyDict]]

\* _Select.__init__(factmap)
Select_init(cls, fm) ==
    [made |-> TRUE, cls |-> cls, index_priority |-> FactMap_indexed_fields(fm),
     where |-> None, indexable |-> None, name_to_ph |-> [names |-> << >>, ph |-> EmptyDict]]

validate_indexable(indexable, prio) ==
    IF IsNone(indexable) THEN None
    ELSE IF indexable[1].field \notin SeqToSet(prio) THEN None
    ELSE indexable

\* _Select._primary_search; primary_search_args is its loop over the
\* arguments of an AND, with the candidate found so far
RECURSIVE primary_search(_, _)
RECURSIVE primary_search_args(_, _, _, _)
primary_search(where, prio) ==
    IF IsNone(where) THEN None
    ELSE LET w == where[1]
         IN  CASE w.t = "fc" -> validate_indexable(FieldComparator_indexable(w), prio)
               [] w.t = "bool" /\ w.boolop = "and" -> primary_search_args(w.args, 1, None, prio)
               [] OTHER -> None
primary_search_args(args, i, indexable, prio) ==
    IF i > Len(args) THEN indexable
    ELSE LET tmp == primary_search(Some(args[i]), prio)
             next == IF IsNone(tmp) THEN indexable
                     ELSE IF IsNone(indexable) THEN tmp
                     ELSE IF Priority(prio, tmp[1].field) < Priority(prio, indexable[1].field)
                          THEN tmp
                     ELSE indexable
         IN  primary_search_args(args, i + 1, next, prio)

\* { p.name : p for p in placeholders }: a key keeps the place of its first
\* occurrence and the value of its last
RECURSIVE make_name_to_ph(_, _, _)
make_name_to_ph(phs, i, acc) ==
    IF i > Len(phs) THEN acc
    ELSE LET n == PH[phs[i]].name
         IN  make_name_to_ph(phs, i + 1,
                [names |-> IF n \in DOMAIN acc.ph THEN acc.names ELSE Append(acc.names, n),
                 ph |-> DictSet(acc.ph, n, phs[i])])

\* _Select.where(*expressions)
Select_where(s, expressions) ==
    IF ~IsNone(s.where) THEN [err |-> "ValueError", sel |-> s]
    ELSE LET where == IF expressions = << >> THEN None
                      ELSE IF Len(expressions) = 1
                           THEN Some(simplify_fact_comparator(expressions[1]))
                      ELSE Some(simplify_fact_comparator(and_(expressions)))
             phs == IF IsNone(where) THEN << >> ELSE get_placeholders(where[1])
         IN  [err |-> "none",
              sel |-> [s EXCEPT !.where = where,
                                !.indexable = primary_search(where, s.index_priority),
                                !.name_to_ph = make_name_to_ph(phs, 1,
                                                  [names |-> << >>, ph |-> EmptyDict])]]

\* the loop over the positional arguments, from argument i (1-based) on
RECURSIVE set_positional(_, _, _, _)
set_positional(n2p, args, i, pv) ==
    IF i > Len(args) THEN [err |-> "none", phval |-> pv]
    ELSE IF PosName(i - 1) \notin DOMAIN n2p.ph
         THEN [err |-> "PlaceholderError", phval |-> pv]
    ELSE set_positional(n2p, args, i + 1, Placeholder_set(pv, n2p.ph[PosName(i - 1)], args[i]))

\* the loop over _name_to_ph.items(), from the i-th name on
RECURSIVE set_named(_, _, _, _)
set_named(n2p, kwargs, i, pv) ==
    IF i > Len(n2p.names) THEN [err |-> "none", phval |-> pv]
    ELSE LET n == n2p.names[i]
             id == n2p.ph[n]
             pv2 == IF n \notin DOMAIN kwargs THEN Placeholder_reset(pv, id)
                    ELSE Placeholder_set(pv, id, kwargs[n])
         IN  IF IsNone(pv2[id]) THEN [err |-> "UnboundPlaceholderError", phval |-> pv2]
             ELSE set_named(n2p, kwargs, i + 1, pv2)

\* _Select._set_placeholder_values(*args, **kwargs)
set_placeholder_values(s, args, kwargs, pv) ==
    LET n2p == s.name_to_ph
    IN  IF n2p.names = << >> /\ DOMAIN kwargs = {} /\ args = << >>
        THEN [err |-> "none", phval |-> pv]
        ELSE IF args # << >> /\ DOMAIN kwargs # {}
        THEN [err |-> "ArgumentError", phval |-> pv]
        ELSE IF args # << >>
        THEN IF Len(args) # Len(n2p.names)
             THEN [err |-> "PlaceholderError", phval |-> pv]
             ELSE set_positional(n2p, args, 1, pv)
        ELSE IF \E n \in DOMAIN kwargs : n \notin DOMAIN n2p.ph
        THEN [err |-> "UnknownPlaceholderError", phval |-> pv]
        ELSE set_named(n2p, kwargs, 1, pv)

\* get_value of _Select.get
get_value(arg, pv) == IF arg.k = "ph" THEN pv[arg.id] ELSE Some(arg.v)

\* the facts of a list that satisfy the where clause, in list order
Filter(ids, where, heap, pv) ==
    SelectSeq(ids, LAMBDA id : Comparator_call(where, heap[id], pv))

RECURSIVE get_by_keys(_, _, _, _, _, _)
get_by_keys(mmap, keys, i, where, heap, pv) ==
    IF i > Len(keys) THEN << >>
    ELSE Filter(mmap.key2values[keys[i]], where, heap, pv)
         \o get_by_keys(mmap, keys, i + 1, where, heap, pv)

\* the body of _Select.get once the placeholders are set, run to the end:
\* the facts yielded, or the exception that ends the iteration.  A key of
\* None is not in the dict (keys_eq) and cannot be ordered against the
\* stored keys by bisect (the other lookups) unless the key list is empty.
Select_scan(s, fm, heap, pv) ==
    IF IsNone(s.indexable)
    THEN [err |-> "none",
          out |-> IF IsNone(s.where) THEN fm.allfacts
                  ELSE Filter(fm.allfacts, s.where[1], heap, pv)]
    ELSE LET ix == s.indexable[1]
             mmap == fm.mmaps[ix.field]
             key == get_value(ix.arg, pv)
         IN  IF IsNone(key)
             THEN IF ix.compop = "eq" \/ mmap.keylist = << >>
                  THEN [err |-> "none", out |-> << >>]
                  ELSE [err |-> "TypeError", out |-> << >>]
             ELSE [err |-> "none",
                   out |-> get_by_keys(mmap, keys_op(mmap, ix.compop, key[1]), 1,
                                       s.where[1], heap, pv)]

\* list(select.get(*args, **kwargs)): the generator run to its end
Select_get(s, fm, heap, args, kwargs, pv) ==
    LET b == set_placeholder_values(s, args, kwargs, pv)
    IN  IF b.err # "none" THEN [err |-> b.err, out |-> << >>, phval |-> b.phval]
        ELSE LET r == Select_scan(s, fm, heap, b.phval)
             IN  [err |-> r.err, out |-> r.out, phval |-> b.phval]

\* _Select.get_unique: the loop stops at the second fact
Select_get_unique(s, fm, heap, args, kwargs, pv) ==
    LET r == Select_get(s, fm, heap, args, kwargs, pv)
    IN  IF Len(r.out) > 1 THEN [err |-> "MultipleResultsError", out |-> << >>, phval |-> r.phval]
        ELSE IF r.err # "none" THEN r
        ELSE IF Len(r.out) = 0 THEN [err |-> "NotFoundError", out |-> << >>, phval |-> r.phval]
        ELSE r

\* _Select.get is a generator function: the call q.get(*args, **kwargs)
\* runs none of its body and returns a generator that holds the arguments;
\* the body runs, from where it stopped, each time the generator is advanced
Generator(args, kwargs) ==
    [args |-> args, kwargs |-> kwargs, pc |-> "created",
     keys |-> << >>, ki |-> 1, fi |-> 0, err |-> "none", out |-> << >>]

\* the position after i of the first fact of the list that the where clause
\* accepts, 0 when there is none
RECURSIVE next_in_list(_, _, _, _, _)
next_in_list(ids, i, s, heap, pv) ==
    IF i > Len(ids) THEN 0
    ELSE IF IsNone(s.where) \/ Comparator_call(s.where[1], heap[ids[i]], pv) THEN i
    ELSE next_in_list(ids, i + 1, s, heap, pv)

\* the same over the lists of the keys of an index, from key ki, position fi
RECURSIVE next_in_keys(_, _, _, _, _, _, _)
next_in_keys(mmap, keys, ki, fi, s, heap, pv) ==
    IF ki > Len(keys) THEN [found |-> FALSE, ki |-> ki, fi |-> 0, id |-> 0]
    ELSE LET lst == mmap.key2values[keys[ki]]
             k == next_in_list(lst, fi + 1, s, heap, pv)
         IN  IF k # 0 THEN [found |-> TRUE, ki |-> ki, fi |-> k, id |-> lst[k]]
             ELSE next_in_keys(mmap, keys, ki + 1, 0, s, heap, pv)

\* the body of get from its loops on, up to the next yield or the end
Generator_resume(s, fm, g, heap, pv) ==
    IF IsNone(s.indexable)
    THEN LET k == next_in_list(fm.allfacts, g.fi + 1, s, heap, pv)
         IN  IF k = 0 THEN [g EXCEPT !.pc = "done"]
             ELSE [g EXCEPT !.pc = "suspended", !.fi = k, !.out = Append(@, fm.allfacts[k])]
    ELSE LET r == next_in_keys(fm.mmaps[s.indexable[1].field], g.keys, g.ki, g.fi, s, heap, pv)
         IN  IF ~r.found THEN [g EXCEPT !.pc = "done"]
             ELSE [g EXCEPT !.pc = "suspended", !.ki = r.ki, !.fi = r.fi, !.out = Append(@, r.id)]

\* next(g): the first one binds the placeholders and looks the keys up
Generator_next(s, fm, g, heap, pv) ==
    IF g.pc = "suspended" THEN [gen |-> Generator_resume(s, fm, g, heap, pv), phval |-> pv]
    ELSE LET b == set_placeholder_values(s, g.args, g.kwargs, pv)
         IN  IF b.err # "none"
             THEN [gen |-> [g EXCEPT !.pc = "failed", !.err = b.err], phval |-> b.phval]
             ELSE IF IsNone(s.indexable)
             THEN [gen |-> Generator_resume(s, fm, g, heap, b.phval), phval |-> b.phval]
             ELSE LET ix == s.indexable[1]
                      mmap == fm.mmaps[ix.field]
                      key == get_value(ix.arg, b.phval)
                  IN  IF IsNone(key) /\ ix.compop # "eq" /\ mmap.keylist # << >>
                      THEN [gen |-> [g EXCEPT !.pc = "failed", !.err = "TypeError"],
                            phval |-> b.phval]
                      ELSE LET keys == IF IsNone(key) THEN << >>
                                       ELSE keys_op(mmap, ix.compop, key[1])
                           IN  [gen |-> Generator_resume(s, fm, [g EXCEPT !.keys = keys],
                                                         heap, b.phval),
                                phval |-> b.phval]

-----------------------------------------------------------------------------
(* The application: what it declares and the calls it makes *)

IndexConfigs == { <<Px>>, <<Py, Px>> }
NoDefaults == [n \in FieldSet |-> None]
DefaultConfigs == { [NoDefaults EXCEPT !["y"] = d] : d \in {None, Some(0), Some(1)} }

Call(op, args, kwargs, err, obj, out, err0, out0) ==
    [op |-> op, args |-> args, kwargs |-> kwargs, err |-> err, obj |-> obj,
     out |-> out, err0 |-> err0, out0 |-> out0]

\* the partition of a class, as select() and get() see it
Partition(factmaps, cls) == FactBase_select(factmaps, cls)[cls]
AllFacts(factmaps, cls) == Partition(factmaps, cls).allfacts

InitWith(dflts, idxs) ==
    /\ defaults \in dflts
    /\ index \in idxs
    /\ objs = << >>
    /\ fb = FactBase_init(index)
    /\ fb0 = FactBase_init(<< >>)
    /\ sel = NoSelect
    /\ sel0 = NoSelect
    /\ exprs = << >>
    /\ phval = [id \in PhIds |-> None]
    /\ gens = << >>
    /\ mm = MultiMap_init
    /\ last = Call("init", << >>, EmptyDict, "none", 0, << >>, "none", << >>)

\* f = P(*args, **kwargs)
New(cls, args, kwargs) ==
    /\ Len(objs) < MaxObjs
    /\ LET r == nls_constructor(cls, args, kwargs, defaults)
       IN  /\ objs' = IF r.made THEN Append(objs, r.obj) ELSE objs
           /\ last' = Call("new", args, kwargs, r.err,
                           IF r.made THEN Len(objs) + 1 ELSE 0, << >>, "none", << >>)
    /\ UNCHANGED <<mm, gens, defaults, index, fb, fb0, sel, sel0, exprs, phval>>

\* f.<name> = v
SetField(i, name, v) ==
    /\ i \in 1..Len(objs)
    /\ LET r == Field_set(Field(objs[i].cls, name), objs[i], v)
       IN  /\ objs' = [objs EXCEPT ![i] = r.obj]
           /\ last' = Call("setattr", <<v>>, (name :> v), r.err, i, << >>, "none", << >>)
    /\ UNCHANGED <<mm, gens, defaults, index, fb, fb0, sel, sel0, exprs, phval>>

\* f[idx] = v
SetItem(i, idx, v) ==
    /\ i \in 1..Len(objs)
    /\ LET r == NLS_setitem(objs[i], idx, v)
       IN  /\ objs' = [objs EXCEPT ![i] = r.obj]
           /\ last' = Call("setitem", <<idx, v>>, EmptyDict, r.err, i, << >>, "none", << >>)
    /\ UNCHANGED <<mm, gens, defaults, index, fb, fb0, sel, sel0, exprs, phval>>

\* g = f.clone(**kwargs)
Clone(i, kwargs) ==
    /\ i \in 1..Len(objs)
    /\ Len(objs) < MaxObjs
    /\ LET r == NLS_clone(objs[i], kwargs, defaults)
       IN  /\ objs' = IF r.made THEN Append(objs, r.obj) ELSE objs
           /\ last' = Call("clone", <<i>>, kwargs, r.err,
                           IF r.made THEN Len(objs) + 1 ELSE 0, << >>, "none", << >>)
    /\ UNCHANGED <<mm, gens, defaults, index, fb, fb0, sel, sel0, exprs, phval>>

\* f == g, f != g, f < g, f <= g, f > g, f >= g
Compare(i, j) ==
    /\ i \in 1..Len(objs)
    /\ j \in 1..Len(objs)
    /\ LET r == NLS_compare(objs[i], objs[j])
       IN  last' = Call("compare", <<i, j>>, EmptyDict, r.err, 0, r.out, "none", << >>)
    /\ UNCHANGED <<mm, gens, defaults, index, objs, fb, fb0, sel, sel0, exprs, phval>>

\* fb.add(f) and fb0.add(f) for an object the application holds
AddObj(i) ==
    /\ i \in 1..Len(objs)
    /\ Len(AllFacts(fb, objs[i].cls)) < MaxFacts
    /\ LET r == FactBase_add(fb, i, objs)
           r0 == FactBase_add(fb0, i, objs)
       IN  /\ fb' = r.factmaps
           /\ fb0' = r0.factmaps
           /\ last' = Call("add", << >>, EmptyDict, r.err, i, << >>, r0.err, << >>)
    /\ UNCHANGED <<mm, gens, defaults, index, objs, sel, sel0, exprs, phval>>

\* fb.add(P(**kwargs)) and fb0.add of the same object
AddFact(cls, kwargs) ==
    /\ Len(objs) < MaxObjs
    /\ LET c == nls_constructor(cls, << >>, kwargs, defaults)
           id == Len(objs) + 1
           heap == Append(objs, c.obj)
       IN  /\ c.made
           /\ objs' = heap
           /\ LET r == FactBase_add(fb, id, heap)
                  r0 == FactBase_add(fb0, id, heap)
              IN  /\ fb' = r.factmaps
                  /\ fb0' = r0.factmaps
                  /\ last' = Call("add", << >>, kwargs, r.err, id, << >>, r0.err, << >>)
    /\ UNCHANGED <<mm, gens, defaults, index, sel, sel0, exprs, phval>>

\* fb.clear() and fb0.clear()
Clear ==
    /\ fb' = FactBase_clear(fb)
    /\ fb0' = FactBase_clear(fb0)
    /\ last' = Call("clear", << >>, EmptyDict, "none", 0, << >>, "none", << >>)
    /\ UNCHANGED <<mm, gens, defaults, index, objs, sel, sel0, exprs, phval>>

\* q = fb.select(cls) and q0 = fb0.select(cls); the application makes one
\* query on each fact base
Select(cls) ==
    /\ ~sel.made
    /\ fb' = FactBase_select(fb, cls)
    /\ fb0' = FactBase_select(fb0, cls)
    /\ sel' = Select_init(cls, fb'[cls])
    /\ sel0' = Select_init(cls, fb0'[cls])
    /\ last' = Call("select", << >>, EmptyDict, "none", 0, << >>, "none", << >>)
    /\ UNCHANGED <<mm, gens, defaults, index, objs, exprs, phval>>

\* q.where(*expressions) and q0.where(*expressions); the application
\* writes one where clause
Where(expressions) ==
    /\ sel.made
    /\ exprs = << >>
    /\ LET r == Select_where(sel, expressions)
           r0 == Select_where(sel0, expressions)
       IN  /\ sel' = r.sel
           /\ sel0' = r0.sel
           /\ exprs' = IF r.err = "none" THEN expressions ELSE exprs
           /\ last' = Call("where", << >>, EmptyDict, r.err, 0, << >>, r0.err, << >>)
    /\ UNCHANGED <<mm, gens, defaults, index, objs, fb, fb0, phval>>

\* list(q.get(*args, **kwargs)) and then list(q0.get(*args, **kwargs))
Get(args, kwargs) ==
    /\ sel.made
    /\ LET r == Select_get(sel, fb[sel.cls], objs, args, kwargs, phval)
           r0 == Select_get(sel0, fb0[sel0.cls], objs, args, kwargs, r.phval)
       IN  /\ phval' = r0.phval
           /\ last' = Call("get", args, kwargs, r.err, 0, r.out, r0.err, r0.out)
    /\ UNCHANGED <<mm, gens, defaults, index, objs, fb, fb0, sel, sel0, exprs>>

\* q.get_unique(*args, **kwargs) and then q0.get_unique(*args, **kwargs)
GetUnique(args, kwargs) ==
    /\ sel.made
    /\ LET r == Select_get_unique(sel, fb[sel.cls], objs, args, kwargs, phval)
           r0 == Select_get_unique(sel0, fb0[sel0.cls], objs, args, kwargs, r.phval)
       IN  /\ phval' = r0.phval
           /\ last' = Call("get_unique", args, kwargs, r.err, 0, r.out, r0.err, r0.out)
    /\ UNCHANGED <<mm, gens, defaults, index, objs, fb, fb0, sel, sel0, exprs>>

\* c(f): a field comparison called on the i-th object with the values the
\* placeholders hold now; out is the boolean returned
Evaluate(c, i) ==
    /\ i \in 1..Len(objs)
    /\ last' = Call("call", <<i>>, ("self" :> c), "none", i,
                    <<FieldComparator_call(c, objs[i], phval)>>, "none", << >>)
    /\ UNCHANGED <<mm, gens, defaults, index, objs, fb, fb0, sel, sel0, exprs, phval>>

\* g = q.get(*args, **kwargs), the generator kept to be advanced later
GetCall(args, kwargs) ==
    /\ sel.made
    /\ Len(gens) < MaxGens
    /\ gens' = Append(gens, Generator(args, kwargs))
    /\ last' = Call("get_call", args, kwargs, "none", Len(gens) + 1, << >>, "none", << >>)
    /\ UNCHANGED <<mm, defaults, index, objs, fb, fb0, sel, sel0, exprs, phval>>

\* next(g) for the n-th generator; out is the fact it yields, if any
Advance(n) ==
    /\ n \in 1..Len(gens)
    /\ gens[n].pc \in {"created", "suspended"}
    /\ LET r == Generator_next(sel, fb[sel.cls], gens[n], objs, phval)
       IN  /\ gens' = [gens EXCEPT ![n] = r.gen]
           /\ phval' = r.phval
           /\ last' = Call("next", gens[n].args, gens[n].kwargs, r.gen.err, n,
                           IF r.gen.pc = "suspended" THEN <<r.gen.out[Len(r.gen.out)]>> ELSE << >>,
                           "none", << >>)
    /\ UNCHANGED <<mm, defaults, index, objs, fb, fb0, sel, sel0, exprs>>

\* m[key] = v on the multimap
MapSetItem(key, v) ==
    /\ Cardinality({ e \in Vals \X (1..MaxFacts) :
                        /\ e[1] \in DOMAIN mm.key2values
                        /\ e[2] <= Len(mm.key2values[e[1]]) }) < MaxFacts
    /\ mm' = MultiMap_setitem(mm, key, v)
    /\ last' = Call("setitem", <<key, v>>, EmptyDict, "none", 0, << >>, "none", << >>)
    /\ UNCHANGED <<gens, defaults, index, objs, fb, fb0, sel, sel0, exprs, phval>>

\* del m[key]
MapDelItem(key) ==
    /\ LET r == MultiMap_delitem(mm, key)
       IN  /\ mm' = r.m
           /\ last' = Call("delitem", <<key>>, EmptyDict, r.err, 0, << >>, "none", << >>)
    /\ UNCHANGED <<gens, defaults, index, objs, fb, fb0, sel, sel0, exprs, phval>>

\* m.clear()
MapClear ==
    /\ mm' = MultiMap_clear(mm)
    /\ last' = Call("clear", << >>, EmptyDict, "none", 0, << >>, "none", << >>)
    /\ UNCHANGED <<gens, defaults, index, objs, fb, fb0, sel, sel0, exprs, phval>>

\* m.keys_op(op, key); out is the list of keys returned
MapKeysOp(op, key) ==
    /\ last' = Call("keys_op", <<key>>, ("op" :> op), "none", 0, keys_op(mm, op, key),
                    "none", << >>)
    /\ UNCHANGED <<mm, gens, defaults, index, objs, fb, fb0, sel, sel0, exprs, phval>>

-----------------------------------------------------------------------------
(* Inputs *)

\* keyword arguments naming every field
YVals == {0, 1}
FullKwargs == { ("x" :> a) @@ ("y" :> b) : a \in Vals, b \in YVals }

\* the conditions of the queries: the indexed field x compared with the
\* positional placeholder ph1_ under every operator, alone and under AND,
\* OR and NOT, next to a static comparison, and two fields compared
Ph1 == PhArg(1)
XvsPh1(op) == FieldComparator(op, FieldArg(Px), Ph1)
Conds ==
    { XvsPh1(op) : op \in Ops }
    \cup { and_(<<FieldComparator("eq", FieldArg(Py), LitArg(1)), XvsPh1(op)>>) : op \in {"le", "gt"} }
    \cup { or_(<<FieldComparator("eq", FieldArg(Py), LitArg(0)), XvsPh1("gt")>>),
           not_(XvsPh1("lt")),
           and_(<<FieldComparator("ne", FieldArg(Px), FieldArg(Px)), XvsPh1("ge")>>),
           and_(<<FieldComparator("le", FieldArg(Px), FieldArg(Py)), XvsPh1("ne")>>) }
WhereInputs == { << >> } \cup { <<c>> : c \in Conds }

\* get() and get(p)
GetInputs == { << << >>, EmptyDict >> } \cup { << <<p>>, EmptyDict >> : p \in Probes }

Init == InitWith({NoDefaults}, { <<Px>> })

Next ==
    \/ \E kw \in FullKwargs : AddFact("P", kw)
    \/ Clear
    \/ Select("P")
    \/ \E e \in WhereInputs : Where(e)
    \/ \E i \in GetInputs : Get(i[1], i[2])
    \/ \E i \in GetInputs : GetUnique(i[1], i[2])

Spec == Init /\ [][Next]_vars

-----------------------------------------------------------------------------
(* SpecFact: an application that builds facts in every form of the         *)
(* constructor, assigns to their fields, adds them to the fact base and    *)
(* clears it                                                               *)

CtorArgs ==
    { <<a>> : a \in Vals } \cup { <<a, b>> : a \in Vals, b \in YVals }
    \cup { <<a, b, 0>> : a \in Vals, b \in YVals }
CtorKwargs ==
    { EmptyDict } \cup { ("x" :> a) : a \in Vals } \cup { ("y" :> b) : b \in YVals }
    \cup FullKwargs \cup { ("x" :> a) @@ ("z" :> 0) : a \in Vals }
CtorInputs == { <<a, EmptyDict>> : a \in CtorArgs } \cup { << << >>, k >> : k \in CtorKwargs }

InitFact == InitWith(DefaultConfigs, { <<Px>> })

NextFact ==
    \/ \E i \in CtorInputs : New("P", i[1], i[2])
    \/ \E i \in 1..MaxObjs, n \in FieldSet, v \in YVals : SetField(i, n, v)
    \/ \E i \in 1..MaxObjs, idx \in 0..(Arity - 1), v \in YVals : SetItem(i, idx, v)
    \/ \E i \in 1..MaxObjs : AddObj(i)
    \/ Clear

SpecFact == InitFact /\ [][NextFact]_vars

-----------------------------------------------------------------------------
(* SpecSimp: an application that writes where clauses built from static    *)
(* values, field comparisons and NOT / AND / OR                            *)

Leaves ==
    { FieldComparator("eq", FieldArg(Px), FieldArg(Px)),
      FieldComparator("ne", FieldArg(Px), FieldArg(Px)),
      FieldComparator("gt", FieldArg(Px), LitArg(0)),
      FieldComparator("eq", FieldArg(Py), LitArg(1)),
      FieldComparator("le", FieldArg(Px), FieldArg(Py)),
      FieldComparator("lt", FieldArg(Py), Ph1) }
Grow(T) ==
    T \cup { not_(a) : a \in T }
      \cup { and_(<<a, b>>) : a \in T, b \in T }
      \cup { or_(<<a, b>>) : a \in T, b \in T }
Trees ==
    Grow(Grow(Leaves))
      \cup { and_(<<a, b, c>>) : a \in Leaves, b \in Leaves, c \in Leaves }
      \cup { or_(<<a, b, c>>) : a \in Leaves, b \in Leaves, c \in Leaves }

InitSimp == InitWith({NoDefaults}, IndexConfigs)

NextSimp ==
    \/ Select("P")
    \/ \E c \in Trees : Where(<<c>>)

SpecSimp == InitSimp /\ [][NextSimp]_vars

-----------------------------------------------------------------------------
(* SpecBind: an application that calls one query with positional and       *)
(* keyword arguments in every form                                         *)

BindConds ==
    { XvsPh1("eq"),
      FieldComparator("eq", FieldArg(Px), PhArg(4)),
      and_(<<FieldComparator("le", FieldArg(Px), PhArg(4)),
             FieldComparator("eq", FieldArg(Py), PhArg(5))>>),
      and_(<<XvsPh1("ge"), FieldComparator("le", FieldArg(Py), PhArg(3))>>),
      and_(<<XvsPh1("eq"), FieldComparator("eq", FieldArg(Py), PhArg(2))>>) }

BindInputs ==
    { << <<0>>, EmptyDict >>, << <<1>>, EmptyDict >>, << <<1, 0>>, EmptyDict >>,
      << << >>, EmptyDict >>, << << >>, ("a" :> 0) >>, << << >>, ("a" :> 1) >>,
      << << >>, ("b" :> 0) >>, << << >>, ("a" :> 1) @@ ("b" :> 0) >>,
      << <<0>>, ("a" :> 0) >> }

BindFacts == { ("x" :> a) @@ ("y" :> 1) : a \in YVals }

NextBind ==
    \/ \E kw \in BindFacts : AddFact("P", kw)
    \/ Select("P")
    \/ \E c \in BindConds : Where(<<c>>)
    \/ \E i \in BindInputs : Get(i[1], i[2])

SpecBind == Init /\ [][NextBind]_vars

-----------------------------------------------------------------------------
(* SpecNls: an application that builds facts of P and Q from values and    *)
(* from symbols, clones them and compares them                             *)

NlsArgs == { <<a, b>> : a \in Vals, b \in YVals } \cup { <<0>> }
FactSymbols == { Function("p", <<Number(a), Number(b)>>) : a \in Vals, b \in YVals }
OtherSymbols ==
    { Function("q", <<Number(0), Number(1)>>),
      Function("p", <<Number(0)>>),
      Function("p", <<Number(0), Number(1), Number(0)>>),
      Function("p", <<Number(0), String("a")>>),
      Function("p", <<String("a"), Number(1)>>),
      Number(0) }
SymbolKwargs ==
    { ("_symbol" :> t) : t \in FactSymbols \cup OtherSymbols }
    \cup { ("_symbol" :> Function("p", <<Number(0), Number(1)>>)) @@ ("x" :> 0) }
CloneKwargs ==
    { EmptyDict, ("z" :> 0), ("x" :> 0) @@ ("z" :> 0) }
    \cup { ("x" :> a) : a \in Vals } \cup { ("y" :> b) : b \in YVals }
    \cup { ("x" :> a) @@ ("y" :> 1) : a \in Vals }

NextNls ==
    \/ \E cls \in Classes, a \in NlsArgs : New(cls, a, EmptyDict)
    \/ \E cls \in Classes, k \in SymbolKwargs : New(cls, << >>, k)
    \/ \E i \in 1..MaxObjs, k \in CloneKwargs : Clone(i, k)
    \/ \E i \in 1..MaxObjs, j \in 1..MaxObjs : Compare(i, j)

SpecNls == Init /\ [][NextNls]_vars

-----------------------------------------------------------------------------
(* SpecStore: an application that adds facts of P and Q, clears the fact   *)
(* base and queries either class                                           *)

StoreWheres == { << >>, <<XvsPh1("le")>> }
StoreGets == { << << >>, EmptyDict >>, << <<0>>, EmptyDict >>, << <<1>>, EmptyDict >> }

NextStore ==
    \/ \E cls \in Classes, kw \in BindFacts : AddFact(cls, kw)
    \/ Clear
    \/ \E cls \in Classes : Select(cls)
    \/ \E e \in StoreWheres : Where(e)
    \/ \E i \in StoreGets : Get(i[1], i[2])

SpecStore == Init /\ [][NextStore]_vars

-----------------------------------------------------------------------------
(* SpecGen: an application that fills the fact base, writes one query and  *)
(* then keeps the generators its get calls return and advances them        *)

GenConds ==
    { XvsPh1("ge"),
      FieldComparator("eq", FieldArg(Py), Ph1),
      and_(<<FieldComparator("le", FieldArg(Px), PhArg(4)),
             FieldComparator("eq", FieldArg(Py), PhArg(5))>>) }
GenInputs ==
    { << <<0>>, EmptyDict >>, << <<1>>, EmptyDict >>, << <<1, 0>>, EmptyDict >>,
      << << >>, EmptyDict >>, << << >>, ("a" :> 1) >>, << << >>, ("c" :> 0) >>,
      << <<0>>, ("a" :> 0) >> }

NextGen ==
    \/ \E kw \in BindFacts : ~sel.made /\ AddFact("P", kw)
    \/ Select("P")
    \/ \E c \in GenConds : Where(<<c>>)
    \/ \E i \in GenInputs : exprs # << >> /\ GetCall(i[1], i[2])
    \/ \E n \in 1..MaxGens : Advance(n)

SpecGen == Init /\ [][NextGen]_vars

-----------------------------------------------------------------------------
(* SpecEval: an application that builds facts of P and Q and calls field   *)
(* comparisons of P on them, before any query has bound a placeholder      *)

EvalConds ==
    { FieldComparator(op, FieldArg(Px), Ph1) : op \in Ops }
    \cup { FieldComparator(op, PhArg(5), FieldArg(Py)) : op \in Ops }
    \cup { FieldComparator(op, FieldArg(Px), LitArg(0)) : op \in Ops }
    \cup { FieldComparator(op, FieldArg(Px), FieldArg(Py)) : op \in Ops }

NextEval ==
    \/ \E cls \in Classes, a \in NlsArgs : New(cls, a, EmptyDict)
    \/ \E c \in EvalConds, i \in 1..MaxObjs : Evaluate(c, i)

SpecEval == Init /\ [][NextEval]_vars

-----------------------------------------------------------------------------
(* SpecMap: an application that fills a _MultiMap, deletes keys present    *)
(* and absent, clears it and looks keys up under every operator            *)

NextMap ==
    \/ \E k \in Vals, v \in 1..MaxObjs : MapSetItem(k, v)
    \/ \E k \in Vals : MapDelItem(k)
    \/ MapClear
    \/ \E op \in Ops, k \in Probes : MapKeysOp(op, k)

SpecMap == Init /\ [][NextMap]_vars

-----------------------------------------------------------------------------
(* Properties *)

Count(seq, id) == Cardinality({ i \in 1..Len(seq) : seq[i] = id })
SameBag(s, t) == \A id \in 1..Len(objs) : Count(s, id) = Count(t, id)
FactsOf(out) == { objs[id] : id \in SeqToSet(out) }
WellFormed(o) == DOMAIN o.field_values = FieldSet
AllObjs == { Obj("P", kw) : kw \in FullKwargs }

IsQuery == last.op \in {"get", "get_unique"}

\* the placeholder values a call's own arguments give, and nothing else
CallBinding(args, kwargs) ==
    [id \in PhIds |->
        IF \E i \in 1..Len(args) : PH[id].name = PosName(i - 1)
        THEN Some(args[CHOOSE i \in 1..Len(args) : PH[id].name = PosName(i - 1)])
        ELSE IF PH[id].name \in DOMAIN kwargs THEN Some(kwargs[PH[id].name])
        ELSE PH[id].default]

\* the stored facts on which the condition the application wrote is true
\* when its placeholders are replaced by the arguments of the last call
Matching ==
    IF exprs = << >> THEN AllFacts(fb, "P")
    ELSE Filter(AllFacts(fb, "P"), exprs[1], objs, CallBinding(last.args, last.kwargs))

\* the last call binds every placeholder of the query: no argument for a
\* query without placeholders, one positional argument for a query on ph1_
BindOK ==
    \/ exprs = << >> /\ last.args = << >> /\ DOMAIN last.kwargs = {}
    \/ /\ Len(exprs) = 1 /\ Len(last.args) = 1 /\ DOMAIN last.kwargs = {}
       /\ sel.name_to_ph.names = <<PosName(0)>>

\* C1: whenever a query is driven by the index on the compared field, get
\* returns the same set of facts (and fails or not alike) as the same query
\* on the fact base without index, for every operator and probe value.
C1_IndexScanEquivalence ==
    (last.op = "get" /\ ~IsNone(sel.indexable))
        => (last.err = last.err0 /\ FactsOf(last.out) = FactsOf(last.out0))

\* C2: for every where clause C and every fact f, the simplified clause the
\* query keeps evaluates on f to the same boolean as C does.
PhBindings == { [id \in PhIds |-> v] : v \in {None, Some(1)} }
C2_SimplificationSound ==
    (Len(exprs) = 1 /\ ~IsNone(sel.where))
        => \A o \in AllObjs, pv \in PhBindings :
              Comparator_call(sel.where[1], o, pv) = Comparator_call(exprs[1], o, pv)

\* C3: an AND with a child that simplifies to Static(false) simplifies to
\* Static(false), and an OR with a child that simplifies to Static(true)
\* simplifies to Static(true), whatever the other children are.
HasStaticChild(c, b) ==
    \E i \in 1..Len(c.args) : simplify_fact_comparator(c.args[i]) = StaticComparator(b)
C3_ConstantFolding ==
    (Len(exprs) = 1 /\ exprs[1].t = "bool")
        => /\ (exprs[1].boolop = "and" /\ HasStaticChild(exprs[1], FALSE))
                => sel.where = Some(StaticComparator(FALSE))
           /\ (exprs[1].boolop = "or" /\ HasStaticChild(exprs[1], TRUE))
                => sel.where = Some(StaticComparator(TRUE))

\* C4: every call of a query on ph1_ with one argument returns exactly the
\* stored facts that match the condition with ph1_ replaced by that
\* argument, whatever the earlier calls were: get yields them all, and
\* get_unique, when it returns, returns one of them and there is no other.
C4_PlaceholderQueryRepeatable ==
    (IsQuery /\ Len(exprs) = 1 /\ BindOK)
        => /\ last.op = "get" => (last.err = "none" /\ SameBag(last.out, Matching))
           /\ (last.op = "get_unique" /\ last.err = "none") => SameBag(last.out, Matching)

\* C5: a call that gives no argument to a placeholder of the query that has
\* no default fails and yields no fact; when the call is in keyword form
\* with known names (or has no argument at all) the failure is the
\* unbound-placeholder error ("no value for placeholder").  A positional
\* call that leaves a placeholder out fails earlier, on the argument count
\* or the missing position; every one of these is a ValueError in the code.
QueryPhs == IF Len(exprs) = 1 THEN SeqToSet(get_placeholders(exprs[1])) ELSE {}
Supplied(n) ==
    \/ \E i \in 1..Len(last.args) : PosName(i - 1) = n
    \/ n \in DOMAIN last.kwargs
Unsupplied == \E id \in QueryPhs : IsNone(PH[id].default) /\ ~Supplied(PH[id].name)
KeywordForm ==
    last.args = << >> /\ DOMAIN last.kwargs \subseteq { PH[id].name : id \in QueryPhs }
C6_GetUniqueCardinality ==
    (last.op = "get_unique" /\ BindOK)
        => LET m == Matching
           IN  /\ Len(m) = 1 => (last.err = "none" /\ last.out = m)
               /\ Len(m) = 0 => last.err = "NotFoundError"
               /\ Len(m) >= 2 => last.err = "MultipleResultsError"

\* C7: when an equal fact was added n times and the fact base was not
\* cleared since, the fact list of the partition holds n copies, the list
\* under its key in the index holds n copies, and a query that matches it
\* returns n copies.
Copies(seq, o) == Cardinality({ i \in 1..Len(seq) : objs[seq[i]] = o })
C7_NoDeduplication ==
    Len(AllFacts(fb, "P")) = Len(objs)
        => \A id \in 1..Len(objs) :
              LET o == objs[id]
                  n == Cardinality({ j \in 1..Len(objs) : objs[j] = o })
                  mmap == Partition(fb, "P").mmaps[Px]
              IN  /\ Copies(AllFacts(fb, "P"), o) = n
                  /\ o.field_values["x"] \in DOMAIN mmap.key2values
                  /\ Copies(mmap.key2values[o.field_values["x"]], o) = n
                  /\ (last.op = "get" /\ BindOK /\ id \in SeqToSet(Matching))
                        => Copies(last.out, o) = n

\* C8: positional construction with a number of values other than the
\* arity (and at least one value) fails with the arity error and no fact
\* object results.
C8_PositionalArity ==
    (last.op = "new" /\ Len(last.args) > 0 /\ Len(last.args) # Arity)
        => (last.err = "ArityError" /\ last.obj = 0)

\* C9: in keyword construction a field that is not supplied takes the
\* declared default of its field type, whatever that value is, and the
\* construction fails with the missing-field error only when a field that
\* is not supplied has no declared default.
C9_KeywordDefaults ==
    (last.op = "new" /\ last.args = << >> /\ DOMAIN last.kwargs \subseteq FieldSet)
        => LET nodefault == \E n \in FieldSet \ DOMAIN last.kwargs : IsNone(defaults[n])
           IN  /\ nodefault => (last.err = "MissingFieldError" /\ last.obj = 0)
               /\ ~nodefault =>
                     /\ last.err = "none"
                     /\ last.obj # 0
                     /\ \A n \in FieldSet :
                           objs[last.obj].field_values[n] =
                              IF n \in DOMAIN last.kwargs THEN last.kwargs[n]
                              ELSE defaults[n][1]

\* C10: no call changes a field value, or the canonical form, of a fact that
\* was constructed with all its fields.
C10_FactImmutable ==
    [][\A i \in 1..Len(objs) :
          WellFormed(objs[i])
             => (objs'[i] = objs[i] /\ generate_symbol(objs'[i]) = generate_symbol(objs[i]))]_vars

\* C11: every fact that holds all its fields unifies with its own canonical
\* form, and the fact its class builds from that form is equal to it and
\* holds the same value in every field; and a fact built from a symbol has
\* that symbol as its canonical form.
C11_UnifyRoundTrip ==
    /\ \A i \in 1..Len(objs) :
          WellFormed(objs[i]) =>
             LET f == objs[i]
                 form == generate_symbol(f).symbol[1]
                 r == nls_constructor(f.cls, << >>, ("_symbol" :> form), defaults)
             IN  /\ NLS_unifies(f.cls, form)
                 /\ r.err = "none" /\ r.made
                 /\ r.obj.field_values = f.field_values
                 /\ NLS_eq(r.obj, f)
    /\ (last.op = "new" /\ "_symbol" \in DOMAIN last.kwargs /\ last.err = "none")
          => /\ last.obj # 0
             /\ generate_symbol(objs[last.obj]).symbol = Some(last.kwargs["_symbol"])
C11_Witness ==
    /\ last.op = "new" /\ DOMAIN last.kwargs = {"_symbol"} /\ last.err = "none"
    /\ last.obj = 2 /\ WellFormed(objs[1])
    /\ last.kwargs["_symbol"] = generate_symbol(objs[1]).symbol[1]
    /\ objs[2].field_values = objs[1].field_values
    /\ objs[1].field_values["x"] # objs[1].field_values["y"]

\* C12: building a fact from a symbol that is not a function, or whose name
\* is not the schema's name, or whose number of arguments is not the arity,
\* or one of whose arguments is not a number, fails with the unify error
\* and no fact object results.
NotUnifiable(t) ==
    \/ t.type # "Function"
    \/ /\ t.type = "Function"
       /\ \/ t.name # "p"
          \/ Len(t.arguments) # 2
          \/ \E i \in 1..Len(t.arguments) : t.arguments[i].type # "Number"
C12_UnifyError ==
    (last.op = "new" /\ DOMAIN last.kwargs = {"_symbol"} /\ NotUnifiable(last.kwargs["_symbol"]))
        => (last.err = "UnifyError" /\ last.obj = 0)
C12_Witness ==
    /\ last.op = "new" /\ last.err = "UnifyError" /\ last.obj = 0
    /\ last.kwargs = ("_symbol" :> Function("p", <<Number(0), String("a")>>))
    /\ Len(objs) = 1

\* C13: for two facts that hold all their fields, f == g exactly when their
\* canonical forms are equal (whatever their classes), f != g is its
\* negation, exactly one of f < g, f == g, f > g holds, f <= g is the
\* negation of f > g and f >= g the negation of f < g.
C13_EqualityOrdering ==
    (last.op = "compare" /\ WellFormed(objs[last.args[1]]) /\ WellFormed(objs[last.args[2]]))
        => LET f == objs[last.args[1]]
               g == objs[last.args[2]]
               B(b) == IF b THEN 1 ELSE 0
           IN  /\ last.err = "none"
               /\ last.out[1] = (MetaName(f.cls) = MetaName(g.cls)
                                  /\ \A n \in FieldSet :
                                        integer_pytocl(f.field_values[n]) = integer_pytocl(g.field_values[n]))
               /\ last.out[2] = ~last.out[1]
               /\ B(last.out[3]) + B(last.out[1]) + B(last.out[5]) = 1
               /\ last.out[4] = ~last.out[5]
               /\ last.out[6] = ~last.out[3]
C13_Witness ==
    /\ last.op = "compare" /\ last.args = <<1, 2>> /\ last.err = "none"
    /\ objs[1].cls = "P" /\ objs[2].cls = "Q"
    /\ objs[1].field_values = objs[2].field_values
    /\ last.out = <<TRUE, FALSE, FALSE, TRUE, FALSE, TRUE>>

\* C14: clone on a fact that holds all its fields, with overrides that name
\* fields of the schema, adds a new fact of the same class whose overridden
\* fields hold the given values and whose other fields hold the original's;
\* with an override that names no field of the schema it fails and adds no
\* fact; in both cases every fact that existed is unchanged.
C14_Clone ==
    [][(last'.op = "clone" /\ WellFormed(objs[last'.args[1]]))
          => LET i == last'.args[1]
                 kw == last'.kwargs
                 new == Len(objs) + 1
             IN  /\ \A k \in 1..Len(objs) : objs'[k] = objs[k]
                 /\ IF DOMAIN kw \subseteq FieldSet
                    THEN /\ last'.err = "none" /\ last'.obj = new /\ Len(objs') = new
                         /\ objs'[new].cls = objs[i].cls
                         /\ \A n \in FieldSet :
                               objs'[new].field_values[n] =
                                  IF n \in DOMAIN kw THEN kw[n] ELSE objs[i].field_values[n]
                    ELSE last'.err # "none" /\ last'.obj = 0 /\ objs' = objs]_vars
C14_Witness ==
    /\ last.op = "clone" /\ last.err = "none" /\ last.args = <<1>> /\ last.obj = 2
    /\ last.kwargs = ("y" :> 1)
    /\ objs[1].field_values["y"] = 0 /\ objs[2].field_values["y"] = 1
    /\ objs[2].field_values["x"] = objs[1].field_values["x"]

\* C15: clear() keeps the set of partitions of the fact base and leaves
\* every partition as a new partition with the same indexed fields (empty
\* fact list, empty indexes); right after it every call of the query made
\* before returns no fact; the add that follows stores and indexes its fact
\* as the same add on a newly built fact base does; and in every state a
\* partition holds what a new partition holds after the adds of its fact
\* list.
RECURSIVE AddAll(_, _, _, _)
AddAll(fm, ids, i, heap) ==
    IF i > Len(ids) THEN fm
    ELSE AddAll(FactMap_add(fm, ids[i], heap).fm, ids, i + 1, heap)
AsNew(factmaps, heap) ==
    \A cls \in DOMAIN factmaps :
        factmaps[cls] = AddAll(FactMap_init(factmaps[cls].fields), factmaps[cls].allfacts, 1, heap)
Emptied(factmaps) ==
    \A cls \in DOMAIN factmaps : factmaps[cls] = FactMap_init(factmaps[cls].fields)
C15_Clear ==
    [][/\ last'.op = "clear"
            => /\ DOMAIN fb' = DOMAIN fb /\ DOMAIN fb0' = DOMAIN fb0
               /\ Emptied(fb') /\ Emptied(fb0')
               /\ \A cls \in DOMAIN fb : fb'[cls].fields = fb[cls].fields
               /\ sel'.made =>
                     \A i \in GetInputs :
                        /\ Select_get(sel', fb'[sel'.cls], objs', i[1], i[2], phval').out = << >>
                        /\ Select_get(sel0', fb0'[sel0'.cls], objs', i[1], i[2], phval').out = << >>
       /\ (last.op = "clear" /\ last'.op = "add")
            => LET cls == objs'[last'.obj].cls
               IN  /\ fb'[cls] = FactBase_add(FactBase_init(index), last'.obj, objs').factmaps[cls]
                   /\ fb0'[cls] = FactBase_add(FactBase_init(<< >>), last'.obj, objs').factmaps[cls]
       /\ AsNew(fb', objs') /\ AsNew(fb0', objs')]_vars
C15_Witness ==
    /\ last.op = "clear" /\ Len(objs) = 2 /\ sel.made /\ exprs # << >>
    /\ objs[1].field_values["x"] # objs[2].field_values["x"]
    /\ AllFacts(fb, "P") = << >> /\ AllFacts(fb0, "P") = << >>
    /\ Partition(fb, "P").mmaps[Px] = MultiMap_init

\* C16: select on a class the fact base has no partition for creates an
\* empty partition for it and changes no other partition, and the query it
\* returns yields the partition's facts; every later add of a fact of that
\* class appends the fact to what the query made earlier yields, and an add
\* of a fact of another class leaves it as it was.
QueryAll(s, factmaps, heap, pv) == Select_get(s, factmaps[s.cls], heap, << >>, EmptyDict, pv).out
C16_SelectBeforeAdd ==
    [][/\ last'.op = "select"
            => /\ sel0'.cls \in DOMAIN fb0' /\ sel'.cls \in DOMAIN fb'
               /\ sel0'.cls \notin DOMAIN fb0 => fb0'[sel0'.cls] = FactMap_init(<< >>)
               /\ sel'.cls \notin DOMAIN fb => fb'[sel'.cls] = FactMap_init(<< >>)
               /\ \A c \in DOMAIN fb0 : fb0'[c] = fb0[c]
               /\ \A c \in DOMAIN fb : fb'[c] = fb[c]
               /\ QueryAll(sel0', fb0', objs', phval') = AllFacts(fb0', sel0'.cls)
       /\ (last'.op = "add" /\ sel.made /\ exprs = << >>)
            => LET id == last'.obj
                   mine == objs'[id].cls = sel.cls
               IN  /\ QueryAll(sel0', fb0', objs', phval') =
                         IF mine THEN Append(QueryAll(sel0, fb0, objs, phval), id)
                         ELSE QueryAll(sel0, fb0, objs, phval)
                   /\ QueryAll(sel', fb', objs', phval') =
                         IF mine THEN Append(QueryAll(sel, fb, objs, phval), id)
                         ELSE QueryAll(sel, fb, objs, phval)]_vars
C16_Witness ==
    /\ last.op = "add" /\ last.obj = 1 /\ Len(objs) = 1 /\ objs[1].cls = "Q"
    /\ sel0.made /\ sel0.cls = "Q" /\ exprs = << >>
    /\ QueryAll(sel0, fb0, objs, phval) = <<1>>

\* C17: every partition holds facts of its own class only; an add appends
\* the fact to the fact list of the partition of its class and changes the
\* fact list of no other partition; and get() on a query without where
\* clause returns the fact list of the partition of the class it was
\* selected for, so never a fact of another class, even an equal one.
OwnClassOnly(factmaps) ==
    \A cls \in DOMAIN factmaps :
        \A k \in 1..Len(factmaps[cls].allfacts) : objs[factmaps[cls].allfacts[k]].cls = cls
FactsIn(factmaps, cls) == IF cls \in DOMAIN factmaps THEN factmaps[cls].allfacts ELSE << >>
C17_RoutingBySchema ==
    [][/\ OwnClassOnly(fb) /\ OwnClassOnly(fb0)
       /\ last'.op = "add"
            => LET id == last'.obj
               IN  \A cls \in Classes :
                     /\ FactsIn(fb', cls) = IF objs'[id].cls = cls
                                            THEN Append(FactsIn(fb, cls), id) ELSE FactsIn(fb, cls)
                     /\ FactsIn(fb0', cls) = IF objs'[id].cls = cls
                                             THEN Append(FactsIn(fb0, cls), id) ELSE FactsIn(fb0, cls)
       /\ (last'.op = "get" /\ exprs' = << >> /\ last'.args = << >>)
            => /\ last'.err = "none" /\ last'.err0 = "none"
               /\ last'.out = FactsIn(fb', sel'.cls) /\ last'.out0 = FactsIn(fb0', sel0'.cls)
               /\ \A k \in 1..Len(last'.out) : objs'[last'.out[k]].cls = sel'.cls]_vars
C17_Witness ==
    /\ last.op = "get" /\ exprs = << >> /\ last.args = << >> /\ sel.cls = "Q"
    /\ Len(objs) = 2 /\ objs[1].cls = "P" /\ objs[2].cls = "Q"
    /\ NLS_eq(objs[1], objs[2])
    /\ last.out = <<2>> /\ last.out0 = <<2>>
    /\ AllFacts(fb, "P") = <<1>>

\* C18: a get call with positional arguments only fails, with the
\* placeholder error and no fact, unless the number of arguments is the
\* number of distinct placeholders of the condition and every argument
\* position i has a positional placeholder of index i; otherwise, after the
\* call, every placeholder of index i in the condition holds argument i.
QueryNames == { PH[id].name : id \in QueryPhs }
PositionalOK ==
    /\ Len(last.args) = Cardinality(QueryNames)
    /\ \A i \in 1..Len(last.args) : PosName(i - 1) \in QueryNames
C18_PositionalBinding ==
    (last.op = "get" /\ last.args # << >> /\ DOMAIN last.kwargs = {})
        => /\ ~PositionalOK => (last.err = "PlaceholderError" /\ last.out = << >>)
           /\ PositionalOK =>
                 \A id \in QueryPhs : \A i \in 1..Len(last.args) :
                     PH[id].name = PosName(i - 1) => phval[id] = Some(last.args[i])

\* C19: a get call whose arguments do not bind the placeholders of the
\* query (wrong count, unknown name, both forms at once, placeholder left
\* without value) fails when it is made, before the sequence it returns is
\* advanced.
InvalidBinding(args, kwargs) == set_placeholder_values(sel, args, kwargs, phval).err # "none"
C19_SynchronousErrors ==
    (last.op = "get_call" /\ InvalidBinding(last.args, last.kwargs))
        => (last.err # "none" /\ Len(gens) < last.obj)

\* C20: calling a field comparison on a fact never raises, and whenever one
\* of its sides has no value (a placeholder nothing has bound, a field read
\* on a fact of another schema or on a fact without that field) it returns
\* false, whichever of the six operators it is.
Unresolved(arg, o) ==
    LET v == getargval(arg, o, phval) IN v.err # "none" \/ IsNone(v.v)
C20_TotalEvaluation ==
    last.op = "call"
        => /\ last.err = "none"
           /\ LET c == last.kwargs["self"]
                  o == objs[last.args[1]]
              IN  (Unresolved(c.arg1, o) \/ Unresolved(c.arg2, o)) => last.out = <<FALSE>>

\* C21: the facts a get call yields come in the order of the partition's
\* fact list when the query scans the list, and by ascending key of the
\* driving index, facts of one key in the order they were added, when the
\* query is driven by an index.  (Which facts are yielded is the subject of
\* C1; this is about their order.)
InListOrder(out, allfacts) ==
    out = SelectSeq(allfacts, LAMBDA id : id \in SeqToSet(out))
RECURSIVE InKeyOrderFrom(_, _, _, _)
InKeyOrderFrom(k, ids, allfacts, name) ==
    IF k > MaxVal THEN << >>
    ELSE SelectSeq(allfacts, LAMBDA id : id \in ids /\ objs[id].field_values[name] = k)
         \o InKeyOrderFrom(k + 1, ids, allfacts, name)
InKeyOrder(out, allfacts, name) ==
    out = InKeyOrderFrom(0, SeqToSet(out), allfacts, name)
C21_ResultOrder ==
    (last.op = "get" /\ last.err = "none" /\ last.err0 = "none")
        => /\ InListOrder(last.out0, fb0[sel0.cls].allfacts)
           /\ IF IsNone(sel.indexable)
              THEN InListOrder(last.out, fb[sel.cls].allfacts)
              ELSE InKeyOrder(last.out, fb[sel.cls].allfacts,
                              sel.indexable[1].field.field_name)
C21_Witness ==
    /\ last.op = "get" /\ last.err = "none"
    /\ ~IsNone(sel.indexable)
    /\ fb["P"].allfacts = <<1, 2>>
    /\ objs[1].field_values["x"] = 1 /\ objs[2].field_values["x"] = 0
    /\ last.out = <<2, 1>> /\ last.out0 = <<1, 2>>

\* C22: a key lookup on a multimap returns, for each of the six operators
\* and every probe key (stored or not, below, inside or above the stored
\* keys), exactly the stored keys x with x op key, in ascending order.
RECURSIVE Ascending(_, _)
Ascending(keys, k) ==
    IF k > MaxVal THEN << >>
    ELSE (IF k \in keys THEN <<k>> ELSE << >>) \o Ascending(keys, k + 1)
C22_KeyLookup ==
    last.op = "keys_op"
        => last.out = Ascending({ x \in DOMAIN mm.key2values :
                                    IntOp(last.kwargs["op"], x, last.args[1]) }, 0)

\* C23: after any sequence of m[k] = v, del m[k] (also of an absent key,
\* which fails) and clear, the key list is strictly ascending, holds exactly
\* the keys of the key-to-values map, and every key has a non-empty list of
\* values; an insertion appends its value to the end of the key's list and
\* leaves the lists of the other keys as they are.
MapConsistent(m) ==
    /\ \A i \in 1..(Len(m.keylist) - 1) : m.keylist[i] < m.keylist[i + 1]
    /\ SeqToSet(m.keylist) = DOMAIN m.key2values
    /\ \A k \in DOMAIN m.key2values : m.key2values[k] # << >>
ValuesAt(m, k) == IF k \in DOMAIN m.key2values THEN m.key2values[k] ELSE << >>
C23_MultiMapInvariant ==
    [][ /\ MapConsistent(mm')
        /\ last'.op = "setitem"
              => \A k \in Vals :
                    ValuesAt(mm', k) = IF k = last'.args[1]
                                       THEN Append(ValuesAt(mm, k), last'.args[2])
                                       ELSE ValuesAt(mm, k)
        /\ last'.op = "delitem"
              => /\ last'.err = (IF last'.args[1] \in DOMAIN mm.key2values
                                 THEN "none" ELSE "KeyError")
                 /\ \A k \in Vals :
                       ValuesAt(mm', k) = IF k = last'.args[1] THEN << >> ELSE ValuesAt(mm, k)
      ]_vars
C23_Witness ==
    /\ last.op = "delitem" /\ last.err = "none" /\ last.args = <<1>>
    /\ mm.keylist = <<0>>
    /\ mm.key2values[0] = <<2, 1>>

\* C24: after any sequence of add and clear, every index of every partition
\* stores exactly the facts of the partition's fact list, as often as the
\* list holds them, and stores each of them under the key that is the
\* fact's present value of the indexed field.
CountInIndex(mmap, id) ==
    Cardinality({ e \in (DOMAIN mmap.key2values) \X (1..MaxFacts) :
                     /\ e[2] <= Len(mmap.key2values[e[1]])
                     /\ mmap.key2values[e[1]][e[2]] = id })
IndexConsistent(fm, heap) ==
    \A i \in 1..Len(fm.fields) :
        LET field == fm.fields[i]
            mmap == fm.mmaps[field]
        IN  /\ \A id \in 1..Len(heap) : CountInIndex(mmap, id) = Count(fm.allfacts, id)
            /\ \A k \in DOMAIN mmap.key2values :
                  \A j \in 1..Len(mmap.key2values[k]) :
                      Field_get(field, heap[mmap.key2values[k][j]]) = [err |-> "none", v |-> Some(k)]
C24_PartitionIndexConsistency ==
    \A cls \in DOMAIN fb : IndexConsistent(fb[cls], objs)

\* C25: the leaf a where clause is driven by is a field comparison of the
\* simplified condition that is reached from its top through ANDs only and
\* that compares an indexed field with a literal or a placeholder; when the
\* simplified condition has no such leaf (its top is an OR or a NOT, or its
\* leaves under ANDs are not indexed or compare two fields, or the only
\* ANDs are inside an OR or a NOT) the query has no driving leaf.
RECURSIVE AndLeaves(_)
RECURSIVE AndLeavesArgs(_, _)
AndLeaves(w) ==
    CASE w.t = "fc" -> <<w>>
      [] w.t = "bool" /\ w.boolop = "and" -> AndLeavesArgs(w.args, 1)
      [] OTHER -> << >>
AndLeavesArgs(args, i) ==
    IF i > Len(args) THEN << >> ELSE AndLeaves(args[i]) \o AndLeavesArgs(args, i + 1)
Drivable(c) ==
    /\ ~c.static
    /\ c.arg1.k = "field" /\ c.arg2.k # "field"
    /\ c.arg1.f \in SeqToSet(index)
LeafOf(c) == [field |-> c.arg1.f, compop |-> c.compop, arg |-> c.arg2]
Candidates == SelectSeq(AndLeaves(sel.where[1]), Drivable)
C25_ConservativeIndexSelection ==
    (sel.made /\ ~IsNone(sel.where))
        => /\ ~IsNone(sel.indexable)
                => \E i \in 1..Len(Candidates) : sel.indexable[1] = LeafOf(Candidates[i])
           /\ Candidates = << >> => IsNone(sel.indexable)
           /\ (sel.where[1].t = "bool" /\ sel.where[1].boolop \in {"or", "not"})
                => IsNone(sel.indexable)
C25_Witness ==
    /\ sel.made /\ IsNone(sel.indexable)
    /\ exprs = <<or_(<<and_(<<FieldComparator("gt", FieldArg(Px), LitArg(0)),
                            FieldComparator("eq", FieldArg(Py), LitArg(1))>>),
                     FieldComparator("le", FieldArg(Px), FieldArg(Py))>>)>>
    /\ sel.where = Some(exprs[1])

\* C26: when the simplified condition has several drivable leaves under
\* its top-level ANDs, the query is driven by the one whose field comes
\* first in the fact base's index list, and among those on that field by
\* the first in the order of the children.
Position(f) == CHOOSE p \in 1..Len(index) : index[p] = f
C26_IndexPriority ==
    (sel.made /\ ~IsNone(sel.where) /\ Candidates # << >>)
        => \E i \in 1..Len(Candidates) :
              /\ sel.indexable = Some(LeafOf(Candidates[i]))
              /\ \A j \in 1..Len(Candidates) :
                    /\ Position(Candidates[i].arg1.f) <= Position(Candidates[j].arg1.f)
                    /\ j < i => Position(Candidates[j].arg1.f) > Position(Candidates[i].arg1.f)
C26_Witness ==
    /\ index = <<Py, Px>>
    /\ exprs = <<and_(<<FieldComparator("gt", FieldArg(Px), LitArg(0)),
                       FieldComparator("lt", FieldArg(Py), Ph1),
                       FieldComparator("eq", FieldArg(Py), LitArg(1))>>)>>
    /\ sel.indexable = Some([field |-> Py, compop |-> "lt", arg |-> Ph1])

\* C27: in every get call that gets as far as evaluating the condition, a
\* placeholder of the condition for which the call supplies no argument
\* holds its default, whatever an earlier call bound to it: after
\* get(a=1, b=0) the call get(a=1) evaluates with b at its default.
Evaluated == last.err \notin {"ArgumentError", "PlaceholderError",
                              "UnknownPlaceholderError", "UnboundPlaceholderError"}
Simplified(c) == [i \in 1..Len(c.args) |-> simplify_fact_comparator(c.args[i])]
NonStatic(sargs) == { i \in 1..Len(sargs) : sargs[i].t # "static" }
AllStatic(sargs, b) == \A i \in 1..Len(sargs) : sargs[i] = StaticComparator(b)
C28_SimplificationStructure ==
    (Len(exprs) = 1 /\ exprs[1].t = "bool")
        => LET c == exprs[1]
               sargs == Simplified(c)
               identity == (c.boolop = "and")
           IN  /\ ( /\ c.boolop \in {"and", "or"}
                    /\ Cardinality(NonStatic(sargs)) = 1
                    /\ \A i \in 1..Len(sargs) : sargs[i].t = "static" => sargs[i].value = identity )
                    => \A i \in NonStatic(sargs) : sel.where = Some(sargs[i])
               /\ (c.boolop = "and" /\ AllStatic(sargs, TRUE))
                    => sel.where = Some(StaticComparator(TRUE))
               /\ (c.boolop = "or" /\ AllStatic(sargs, FALSE))
                    => sel.where = Some(StaticComparator(FALSE))
               /\ (c.boolop = "not" /\ sargs[1].t = "static")
                    => sel.where = Some(StaticComparator(~sargs[1].value))
C28_Witness ==
    /\ exprs = <<and_(<<FieldComparator("eq", FieldArg(Px), FieldArg(Px)),
                       FieldComparator("gt", FieldArg(Px), LitArg(0)),
                       FieldComparator("eq", FieldArg(Px), FieldArg(Px))>>)>>
    /\ sel.where = Some(FieldComparator("gt", FieldArg(Px), LitArg(0)))

\* C29: when ph1_ is written in two or more leaves of the condition and is
\* its only placeholder, a get call with one positional argument v succeeds
\* and returns exactly the stored facts on which the condition is true with
\* v in the place of every ph1_.
WrittenTwice(n) ==
    \E id1 \in QueryPhs, id2 \in QueryPhs :
        id1 # id2 /\ PH[id1].name = n /\ PH[id2].name = n
C29_RepeatedPlaceholder ==
    ( /\ last.op = "get" /\ Len(last.args) = 1 /\ DOMAIN last.kwargs = {}
      /\ WrittenTwice(PosName(0)) /\ QueryNames = {PosName(0)} )
        => /\ last.err = "none"
           /\ SameBag(last.out, Matching)
           /\ SameBag(last.out0, Matching)

\* C30: of the sequences get calls on one query returned, with arguments
\* that bind its placeholders, advanced in any interleaving while the fact
\* base does not change, each yields what its own call yields when its
\* sequence is drained at once (the facts that match under the arguments of
\* that call, C1 and C4), in that order and all of them by the time it
\* ends, whatever other sequence was created or advanced in between.
Binds(g) == set_placeholder_values(sel, g.args, g.kwargs, phval).err = "none"
Alone(g) == Select_get(sel, fb[sel.cls], objs, g.args, g.kwargs, phval).out
IsPrefix(s, t) == Len(s) <= Len(t) /\ s = SubSeq(t, 1, Len(s))
C30_IndependentSequences ==
    \A n \in 1..Len(gens) :
        (Len(exprs) = 1 /\ \A m \in 1..Len(gens) : Binds(gens[m]))
            => /\ gens[n].pc # "failed"
               /\ IsPrefix(gens[n].out, Alone(gens[n]))
               /\ gens[n].pc = "done" => gens[n].out = Alone(gens[n])

====
